---- MODULE Spec2Model ----
(***************************************************************************)
(* Freedify audio pipeline: AudioService (Tidal/Deezer resolution with     *)
(* endpoint affinity, FFmpeg transcode, cache) and the stream_audio /      *)
(* download_audio handlers of main.py, plus SpotifyService's token logic.  *)
(*                                                                         *)
(* One request is in flight at a time; every await of the code is a step.  *)
(* Upstream answers are chosen by the environment at each network step.    *)
(***************************************************************************)
EXTENDS Integers, Sequences, FiniteSets, TLC

\* ------------------------------------------------------------- bounds
MaxIsrc == 1
MaxToken == 1
MaxTracks == 3
MaxItems == 3
MaxRequests == 2
WriteChunks == 2
MaxInput == 2
MaxOutput == 2
MaxDiag == 1
PipeCap == 1
MaxResolutions == 2

Isrcs == 1..MaxIsrc
Tokens == 1..MaxToken

\* ---------------------------------------------------------- constants
None == "None"

\* audio_service.py:34-42, in configured (priority) order
TIDAL_APIS == <<"kinoplus", "binimum", "wolf", "maus", "vogel", "katze", "hund">>

Exts == {"mp3", "flac"}
CacheKeys == Isrcs \X Exts

VARIABLES
  \* AudioService fields
  tidal_token,    \* 0 = None/empty, else a token
  working_api,    \* None or a member of TIDAL_APIS
  \* app.cache directory: key -> stored bytes (None = no file)
  cache,
  \* the request in flight
  pc,
  req,            \* [kind, isrc, q, hifi, method, format]
  caller,         \* who called search_tidal_by_isrc / get_tidal_download_url
  tidal_track,
  apis_to_try,
  idx,            \* position in apis_to_try of the endpoint being tried
  download_url,   \* [api, val]
  flac_data,
  mp3_data,
  resp,           \* [status, body]
  h,              \* observations of the request in flight (history)
  token_rejected, \* the memoized tidal_token was answered with 401
  acquired,       \* identities whose (isrc, mp3) entry get_audio_stream wrote, not evicted since
  \* SpotifyService
  access_token,   \* 0 = None/empty, else a token
  sp,             \* the Spotify call in flight
  \* main.py download_batch
  batch,          \* the batch request in flight
  \* one call of search_tidal_by_isrc with the provider's answer spelled out
  search,
  \* concurrent requests for one identity on one event loop
  disk,           \* the cache directory: path -> file
  task,           \* the requests in flight
  loop,           \* who holds the event loop: 0 = free, else the request blocking it
  tc,             \* one transcode_to_mp3 call: the caller, the encoder and their pipes
  rs,             \* the concurrent calls of get_tidal_download_url
  attempts        \* what the endpoints answered so far, over all calls

audioVars == <<tidal_token, working_api, cache, pc, req, caller, tidal_track,
               apis_to_try, idx, download_url, flac_data, mp3_data, resp, h,
               token_rejected, acquired>>
spotifyVars == <<access_token, sp>>
batchVars == <<batch>>
\* what the actions of one part leave alone
searchVars == <<search>>
concVars == <<disk, task, loop>>
otherThanAudio == <<spotifyVars, batchVars, searchVars, concVars, tc, rs, attempts>>
otherThanSpotify == <<audioVars, batchVars, searchVars, concVars, tc, rs, attempts>>
otherThanBatch == <<audioVars, spotifyVars, searchVars, concVars, tc, rs, attempts>>
otherThanSearch == <<audioVars, spotifyVars, batchVars, concVars, tc, rs, attempts>>
otherThanConc == <<audioVars, spotifyVars, batchVars, searchVars, tc, rs, attempts>>
\* the concurrent resolutions share working_api with the rest of the service
otherThanResolution == <<tidal_token, cache, pc, req, caller, tidal_track,
                         apis_to_try, idx, download_url, flac_data, mp3_data,
                         resp, h, token_rejected, acquired,
                         spotifyVars, batchVars, searchVars, concVars, tc>>
otherThanTranscode == <<audioVars, spotifyVars, batchVars, searchVars, concVars, rs, attempts>>
vars == <<tidal_token, working_api, cache, pc, req, caller, tidal_track,
          apis_to_try, idx, download_url, flac_data, mp3_data, resp, h,
          token_rejected, acquired, access_token, sp, batch, search,
          disk, task, loop, tc, rs, attempts>>

\* ------------------------------------------------------------ helpers
Range(s) == {s[i] : i \in 1..Len(s)}

IndexOf(s, x) == CHOOSE i \in 1..Len(s) : s[i] = x

NoUrl == [api |-> None, val |-> "none"]

\* Python truthiness of a URL value: None and "" are falsy
Truthy(url) == url.val \in {"str", "nonstr"}

NoReq == [kind |-> None, isrc |-> 0, q |-> FALSE, hifi |-> FALSE,
          method |-> None, format |-> None, range |-> None]
NoResp == [status |-> 0, body |-> None]

NoHist == [
  hitExpected |-> FALSE,  \* isrc was in acquired when the request began, not evicted since
  net         |-> FALSE,  \* an upstream network call was issued by this request
  inGas       |-> FALSE,  \* get_audio_stream has been entered
  gasHit      |-> FALSE,  \* isrc was in acquired when get_audio_stream began, not evicted since
  gasNet      |-> FALSE,  \* an upstream call was issued inside get_audio_stream
  gasFromCache|-> FALSE,  \* get_audio_stream returned the cached bytes
  wrote       |-> FALSE,  \* get_audio_stream's cache_file completed, entry not evicted since
  start_api   |-> None,   \* working_api when apis_to_try was built
  soft_only   |-> FALSE,  \* every failed attempt so far was an error, HTML, bad JSON or unknown shape
  tokenFailed |-> FALSE,  \* get_tidal_token raised inside fetch_flac
  dzAvail     |-> FALSE,  \* Deezer has the ISRC and delivers its bytes when asked in this resolution
  dzTried     |-> FALSE,  \* a request went to Deezer
  tidalBytes  |-> FALSE,  \* the Tidal download answered 200
  ff          |-> None,   \* fetch_flac: None / "running" / "returned" / "raised"
  unresolved  |-> FALSE,  \* a source resolution ran to its end and found no source
  resolved    |-> FALSE,  \* a source was found (stream URL or source bytes)
  encFailed   |-> FALSE,  \* the encoder failed after the source was fetched
  enc         |-> None,   \* what the encoder did in transcode_to_mp3
  cache0      |-> [k \in CacheKeys |-> None], \* the cache when the hifi request, then get_audio_stream, began, less what the sweep removed since
  cacheWriteFailed |-> FALSE, \* cache_file failed after the transcode
  gasOut      |-> None,   \* get_audio_stream: None / "bytes" / "none" / "raised"
  proxy       |-> None,   \* the passthrough attempt: None / "no_url" / "raised" / "head" / "relayed"
  upRange     |-> None,   \* the Range header of the request sent upstream
  up          |-> None,   \* the upstream response to that request
  conn        |-> None,   \* the upstream streaming connection: None / "open" / "closed" / "released"
  exc         |-> None,   \* str(e) of the exception that reached the handler's except
  requests    |-> 0,      \* endpoint requests sent by get_tidal_download_url so far
  firstYield  |-> 0,      \* position in apis_to_try of the first endpoint that answered a non-empty URL value
  tokHad      |-> 0,      \* self.tidal_token when get_tidal_token was called
  tokRet      |-> 0,      \* the token that call returned
  tokNet      |-> FALSE,  \* that call sent a request to the token endpoint
  readEmpty   |-> FALSE]  \* is_cached said yes and get_cached_file has just returned nothing

\* a network step of the request
Net(hh) == [hh EXCEPT !.net = TRUE, !.gasNet = hh.inGas]

\* --------------------------------------------------------- app.cache
is_cached(isrc, ext) == cache[<<isrc, ext>>] # None

\* --------------------------------------------- get_tidal_download_url
\* bug variant: the last working endpoint is put first but not removed
TryListNoRemove(w) ==
  IF w # None /\ w \in Range(TIDAL_APIS)
  THEN <<w>> \o TIDAL_APIS
  ELSE TIDAL_APIS

\* bug variant: the last working endpoint is put first and the others follow
\* from the least preferred to the most preferred
TryListRestReversed(w) ==
  IF w # None /\ w \in Range(TIDAL_APIS)
  THEN LET rest == SelectSeq(TIDAL_APIS, LAMBDA a : a # w)
       IN <<w>> \o [i \in 1..Len(rest) |-> rest[Len(rest) + 1 - i]]
  ELSE TIDAL_APIS

\* audio_service.py:185-188
TryList(w) ==
  IF w # None /\ w \in Range(TIDAL_APIS)
  THEN <<w>> \o SelectSeq(TIDAL_APIS, LAMBDA a : a # w)
  ELSE TIDAL_APIS

\* What one endpoint can answer (audio_service.py:113-179).  val is the value
\* found in the URL field of a recognised record: a non-empty string, an empty
\* (falsy) value, or a truthy value that is no string.
UrlShapes == {"v2_manifest", "list_OriginalTrackUrl", "dict_OriginalTrackUrl", "dict_url"}
FailShapes == {"timeout", "exception", "non200", "html", "invalid_json",
               "v2_no_manifest", "v2_bad_manifest", "v2_no_urls",
               "list_other", "dict_other", "scalar"}
ApiResponses ==
  [shape : UrlShapes, val : {"str", "empty", "nonstr"}]
    \cup [shape : FailShapes, val : {"none"}]

\* bug variant: the flat {"url": ...} record does not record the endpoint
ApiResultNoAffinity(api_url, r) ==
  IF r.shape \in UrlShapes
  THEN [url |-> [api |-> api_url, val |-> r.val], working |-> (r.shape # "dict_url")]
  ELSE [url |-> NoUrl, working |-> FALSE]

\* get_tidal_download_url_from_api: the value returned and whether
\* self.working_api = api_url was executed
ApiResult(api_url, r) ==
  CASE r.shape \in {"timeout", "exception"} -> [url |-> NoUrl, working |-> FALSE]
    [] r.shape = "non200" -> [url |-> NoUrl, working |-> FALSE]
    [] r.shape = "html" -> [url |-> NoUrl, working |-> FALSE]
    [] r.shape = "invalid_json" -> [url |-> NoUrl, working |-> FALSE]
    [] r.shape = "v2_manifest" ->
         [url |-> [api |-> api_url, val |-> r.val], working |-> TRUE]
    [] r.shape \in {"v2_no_manifest", "v2_bad_manifest", "v2_no_urls"} ->
         [url |-> NoUrl, working |-> FALSE]
    [] r.shape = "list_OriginalTrackUrl" ->
         [url |-> [api |-> api_url, val |-> r.val], working |-> TRUE]
    [] r.shape = "list_other" -> [url |-> NoUrl, working |-> FALSE]
    [] r.shape \in {"dict_OriginalTrackUrl", "dict_url"} ->
         [url |-> [api |-> api_url, val |-> r.val], working |-> TRUE]
    [] OTHER -> [url |-> NoUrl, working |-> FALSE]


\* --------------------------------------------------------------- Init
\* the Spotify call in flight: the public method, where it is, and what it saw
NoSp == [pc |-> "idle", op |-> None,
         memo |-> FALSE,     \* _get_access_token returned the memoized token
         had |-> 0,          \* self.access_token when _get_access_token was called
         after_failure |-> FALSE, \* the call before this one ended with _get_access_token raising
         primary |-> None,   \* answer of TOKEN_URL in this call
         primaryTries |-> 0, \* requests to TOKEN_URL in this call
         secondary |-> None, \* answer of the embed page in this call
         secondaryTries |-> 0,
         token |-> 0,        \* the token _get_access_token returned
         raised |-> FALSE,   \* _get_access_token raised
         api |-> None,       \* answer of the API request
         out |-> None,       \* what the public method gave its caller
         rejected |-> FALSE] \* the memoized access_token was answered with 401

\* the batch request in flight (main.py:769-820): where the handler is, the
\* number of tracks, the entry of the loop (1-based), its name and artist,
\* used_names, the entries written to zip_file, and what happened to entries
NoBatch == [pc |-> "idle", n |-> 0, i |-> 0,
            name |-> <<>>, artist |-> <<>>,
            short |-> FALSE,     \* names or artists has ended before this index
            used_names |-> {},
            zip_file |-> <<>>,   \* sequence of [filename, track]
            inflight |-> {},     \* entries whose get_download_audio is awaited
            ok |-> {},           \* entries whose acquisition returned a result
            failed |-> {},       \* entries that returned nothing or raised
            status |-> 0]

\* the search call in flight: the identity, the hint, the query sent, the
\* provider's answer and what the call returned
NoSearch == [pc |-> "idle", isrc |-> None, query |-> None, search_query |-> None,
             answer |-> None, result |-> None]

\* concurrent requests: the requests, the paths of the cache directory for
\* the one identity they ask for, and a file (data is the sequence of chunks
\* written, each named by the request whose encoder output it comes from)
Requests == 1..MaxRequests
FinalPath == <<"final", 0>>
TempPath(p) == <<"tmp", p>>
Paths == {FinalPath} \cup {TempPath(p) : p \in Requests}
NoFile == [exists |-> FALSE, data |-> <<>>]

\* the encoder output of request p, as written or served whole
Output(p) == [i \in 1..WriteChunks |-> p]

NoTask == [pc |-> "idle", kind |-> None,
           missed |-> FALSE,   \* is_cached answered False
           n |-> 0,            \* chunks of its output written by cache_file
           served |-> None,    \* None / "cache" / "file" / "bytes" / "none" / "raised" / "killed" / "gone"
           got |-> <<>>,       \* the bytes served
           during |-> {},      \* requests that were in the transcode step when this one began and still are
           evicted |-> FALSE]  \* the sweep removed the entry after this request wrote it

\* ------------------------------------------- transcode_to_mp3, pipes
\* audio_service.py:281-315. The caller hands flac_data to the encoder's
\* stdin and collects its stdout and stderr (process.communicate, 301);
\* each pipe holds at most PipeCap chunks, a write to a full pipe and a
\* read of an empty open pipe block.
NoneResult == [none |-> TRUE, len |-> 0]
Bytes(n) == [none |-> FALSE, len |-> n]

NoTranscode ==
  [pc |-> "idle", input0 |-> 0, input |-> 0, stdin_open |-> FALSE,
   inp |-> 0, outp |-> 0, errp |-> 0,
   enc |-> "none", want |-> "none", eof |-> FALSE, returncode |-> 0,
   produced |-> 0, diag |-> 0, mp3_data |-> 0, stderr |-> 0,
   result |-> NoneResult, jam |-> FALSE]

\* what the encoder may attempt next: it reads its input until end of
\* file, writes output and diagnostics, and exits when it chooses to
NextWants(t) ==
  {"exit"} \cup (IF t.eof THEN {} ELSE {"read"})
           \cup (IF t.produced < MaxOutput THEN {"emit"} ELSE {})
           \cup (IF t.diag < MaxDiag THEN {"diag"} ELSE {})

\* a caller that collects nothing before it has fed the whole input
ParentReadsAfterFeeding(t) == ~t.stdin_open

\* communicate (301) serves whichever pipe is ready: it reads stdout and
\* stderr while it is still feeding stdin
ParentReads(t) == TRUE

\* both directions full at once: the caller has input left and no room to
\* write it, the encoder has output to write and no room either
Mark(t) ==
  IF /\ t.pc = "communicate" /\ t.enc = "running"
     /\ t.stdin_open /\ t.inp = PipeCap
     /\ t.want = "emit" /\ t.outp = PipeCap
  THEN [t EXCEPT !.jam = TRUE]
  ELSE t

\* lines 303-308: a non-zero exit status gives None, else the collected output
CommunicateResult(t) ==
  IF t.returncode # 0 THEN NoneResult ELSE Bytes(t.mp3_data)

\* -------------------------------- concurrent get_tidal_download_url
\* The calls run on one event loop: a call runs alone from one await to the
\* next, and the only await is the request to an endpoint (117).
Resolutions == 1..MaxResolutions

NoResolution == [pc |-> "idle", apis_to_try |-> <<>>, idx |-> 0, download_url |-> NoUrl]

NoAttempts ==
  [yielded |-> {},   \* the endpoints that answered a URL in some attempt
   last    |-> None] \* the endpoint of the last attempt that answered a URL

Init ==
  /\ batch = NoBatch
  /\ search = NoSearch
  /\ disk = [x \in Paths |-> NoFile]
  /\ task = [p \in Requests |-> NoTask]
  /\ loop = 0
  /\ tc = NoTranscode
  /\ rs = [p \in Resolutions |-> NoResolution]
  /\ attempts = NoAttempts
  /\ tidal_token = 0
  /\ working_api = None
  /\ token_rejected = FALSE
  /\ acquired = {}
  /\ cache = [k \in CacheKeys |-> None]
  /\ pc = "idle"
  /\ req = NoReq
  /\ caller = None
  /\ tidal_track = None
  /\ apis_to_try = <<>>
  /\ idx = 0
  /\ download_url = NoUrl
  /\ flac_data = None
  /\ mp3_data = None
  /\ resp = NoResp
  /\ h = NoHist
  /\ access_token = 0
  /\ sp = NoSp

svc == <<tidal_token, working_api, token_rejected>>
svcAcq == <<tidal_token, working_api, token_rejected, acquired>>
urlLocals == <<apis_to_try, idx, download_url>>
dataLocals == <<flac_data, mp3_data>>

\* ------------------------------------------------ main.py stream_audio
\* bug variant: the cache is always asked for the lossless file
CacheExtAlwaysFlac(hifi) == "flac"

\* main.py:436-442
CacheExt(hifi) == IF hifi THEN "flac" ELSE "mp3"

\* main.py:417-472 and 550-560, up to the first await
stream_audio(i, hint, hf) ==
  /\ pc = "idle"
  /\ req' = [kind |-> "stream", isrc |-> i, q |-> hint, hifi |-> hf,
             method |-> None, format |-> CacheExt(hf), range |-> None]
  /\ h' = [NoHist EXCEPT !.hitExpected = (i \in acquired),
                          !.proxy = IF hf /\ ~hint /\ ~is_cached(i, CacheExt(hf))
                                    THEN "no_url" ELSE None,
                          !.cache0 = IF hf /\ ~is_cached(i, CacheExt(hf))
                                     THEN cache ELSE NoHist.cache0]
  /\ IF is_cached(i, CacheExt(hf))
     THEN /\ resp' = [status |-> 200, body |-> "cache"]
          /\ pc' = "done"
          /\ caller' = caller
     ELSE IF hf
     THEN /\ resp' = resp
          /\ IF hint
             THEN pc' = "get_tidal_token" /\ caller' = "hifi"
             ELSE pc' = "get_audio_stream" /\ caller' = caller
     ELSE /\ resp' = [status |-> 200, body |-> "stream"]
          /\ pc' = "stream_audio_generator"
          /\ caller' = caller
  /\ UNCHANGED <<svcAcq, cache, tidal_track, urlLocals, dataLocals>>
  /\ UNCHANGED otherThanAudio

\* ------------------------------------- AudioService.get_tidal_token
TokenResponses == {"ok", "ok_empty", "bad_status", "no_access_token", "exception"}

\* bug variant: stream_audio gives up when the search for the stream URL found nothing
AfterSearchHifiGivesUp(track) ==
  IF track # None THEN "get_tidal_download_url"
  ELSE IF caller = "hifi" THEN "stream_audio_except"
  ELSE "get_deezer_track_id"

\* bug variant: fetch_flac gives up when the Tidal search found nothing
AfterSearchNoDeezer(track) ==
  IF track # None THEN "get_tidal_download_url"
  ELSE IF caller = "hifi" THEN "get_audio_stream"
  ELSE "fetch_flac_ret"

\* where search_tidal_by_isrc's caller goes on with its result:
\* main.py:466-472 (stream_audio), audio_service.py:241-263 (fetch_flac)
AfterSearch(track) ==
  IF track # None THEN "get_tidal_download_url"
  ELSE IF caller = "hifi" THEN "get_audio_stream"
  ELSE "get_deezer_track_id"

\* bug variant: the memoized token is never used
HasTidalTokenNever(tok) == FALSE

\* audio_service.py:60-61: if self.tidal_token
HasTidalToken(tok) == tok # 0

\* audio_service.py:58-73, called at audio_service.py:78
get_tidal_token ==
  /\ pc = "get_tidal_token"
  /\ IF HasTidalToken(tidal_token)
     THEN /\ pc' = "search_tidal_by_isrc"
          /\ h' = [h EXCEPT !.tokHad = tidal_token, !.tokRet = tidal_token]
          /\ UNCHANGED <<tidal_token, token_rejected, tidal_track>>
     ELSE \E r \in TokenResponses :
            IF r = "ok"
            THEN \E t \in Tokens :
                   /\ tidal_token' = t
                   /\ token_rejected' = FALSE
                   /\ pc' = "search_tidal_by_isrc"
                   /\ h' = [Net(h) EXCEPT !.tokHad = tidal_token, !.tokRet = t,
                                           !.tokNet = TRUE]
                   /\ tidal_track' = tidal_track
            ELSE IF r = "ok_empty"
            THEN /\ tidal_token' = 0
                 /\ token_rejected' = FALSE
                 /\ pc' = "search_tidal_by_isrc"
                 /\ h' = [Net(h) EXCEPT !.tokHad = tidal_token, !.tokNet = TRUE]
                 /\ tidal_track' = tidal_track
            ELSE \* the exception is caught at audio_service.py:104-106
                 /\ tidal_token' = tidal_token
                 /\ token_rejected' = token_rejected
                 /\ tidal_track' = None
                 /\ pc' = AfterSearch(None)
                 /\ h' = [Net(h) EXCEPT !.tokenFailed = (caller = "fetch"),
                                         !.proxy = IF caller = "hifi" THEN "no_url" ELSE h.proxy]
  /\ UNCHANGED <<working_api, acquired, cache, req, caller, urlLocals, dataLocals, resp>>
  /\ UNCHANGED otherThanAudio

\* ---------------------------------- AudioService.search_tidal_by_isrc
SearchResponses == {"exact", "first", "empty", "status_401", "status_other",
                    "exception", "malformed"}

\* audio_service.py:81-106
search_tidal_by_isrc ==
  /\ pc = "search_tidal_by_isrc"
  /\ \E r \in SearchResponses :
       LET track == IF r \in {"exact", "first"} THEN "track" ELSE None
           rej == r = "status_401" /\ tidal_token # 0
       IN /\ tidal_track' = track
          /\ pc' = AfterSearch(track)
          /\ token_rejected' = (token_rejected \/ rej)
          /\ h' = [Net(h) EXCEPT !.proxy = IF caller = "hifi" /\ track = None
                                           THEN "no_url" ELSE h.proxy,
                                  !.tokHad = 0, !.tokRet = 0, !.tokNet = FALSE]
  /\ UNCHANGED <<tidal_token, working_api, acquired, cache, req, caller, urlLocals,
                 dataLocals, resp>>
  /\ UNCHANGED otherThanAudio

\* The same function with the answer spelled out.  An item of the result
\* list is [id, isrc]: id tells the items apart, isrc is the value of its
\* "isrc" key ("absent" when the item has none).
SearchIsrcs == {"USAT20000001", "GBUM70000002"}
SearchQueries == {"", "title artist"}
ItemIsrcs == SearchIsrcs \cup {"absent"}
ItemLists ==
  UNION {{[i \in 1..n |-> [id |-> i, isrc |-> f[i]]] : f \in [1..n -> ItemIsrcs]}
         : n \in 0..MaxItems}

\* what the provider answers: a 200 with a JSON object whose "items" is a
\* list of objects, or an answer for which raise_for_status, json() or the
\* look-ups raise, or no answer at all
SearchAnswers ==
  [kind : {"ok"}, items : ItemLists]
    \cup [kind : {"http_error", "invalid_json", "malformed", "exception"}, items : {<<>>}]

\* audio_service.py:79
SearchQuery(query, isrc) == IF query # "" THEN query ELSE isrc

\* audio_service.py:97-99 from item k on, then 101-102
RECURSIVE ScanItems(_, _, _)
ScanItems(items, isrc, k) ==
  IF k > Len(items)
  THEN IF items # <<>> THEN items[1] ELSE None
  ELSE IF items[k].isrc = isrc THEN items[k]
  ELSE ScanItems(items, isrc, k + 1)

\* bug variant: the first result is taken whatever its ISRC
SearchPickFirst(items, isrc) == IF items # <<>> THEN items[1] ELSE None

\* audio_service.py:96-102
SearchPick(items, isrc) == ScanItems(items, isrc, 1)

\* audio_service.py:77-106: the value returned for an answer
SearchReturn(answer, isrc) ==
  IF answer.kind = "ok" THEN SearchPick(answer.items, isrc) ELSE None

\* audio_service.py:75-90: the call, up to the request
search_request(isrc, query) ==
  /\ search.pc = "idle"
  /\ search' = [NoSearch EXCEPT !.pc = "awaiting", !.isrc = isrc, !.query = query,
                                !.search_query = SearchQuery(query, isrc)]
  /\ UNCHANGED otherThanSearch

\* audio_service.py:91-106
search_response ==
  /\ search.pc = "awaiting"
  /\ \E answer \in SearchAnswers :
       search' = [search EXCEPT !.pc = "returned", !.answer = answer,
                                !.result = SearchReturn(answer, search.isrc)]
  /\ UNCHANGED otherThanSearch

search_finish ==
  /\ search.pc = "returned"
  /\ search' = NoSearch
  /\ UNCHANGED otherThanSearch

NextSearch ==
  \/ \E isrc \in SearchIsrcs, query \in SearchQueries : search_request(isrc, query)
  \/ search_response
  \/ search_finish

SpecSearch == Init /\ [][NextSearch]_vars

\* --------------------------------- AudioService.get_tidal_download_url
\* audio_service.py:184-188
get_tidal_download_url ==
  /\ pc = "get_tidal_download_url"
  /\ apis_to_try' = TryList(working_api)
  /\ idx' = 1
  /\ download_url' = NoUrl
  /\ h' = [h EXCEPT !.start_api = working_api, !.soft_only = TRUE,
                     !.requests = 0, !.firstYield = 0]
  /\ pc' = "get_tidal_download_url_from_api"
  /\ UNCHANGED <<svcAcq, cache, req, caller, tidal_track, dataLocals, resp>>
  /\ UNCHANGED otherThanAudio

\* bug variant: the loop goes on after an endpoint answered a URL
LoopReturnsNever(download_url_) == FALSE

\* audio_service.py:193-194: if download_url: return download_url
LoopReturns(download_url_) == Truthy(download_url_)

\* audio_service.py:191-197 with 108-179: one turn of the loop
get_tidal_download_url_from_api ==
  /\ pc = "get_tidal_download_url_from_api"
  /\ \E r \in ApiResponses :
       LET api_url == apis_to_try[idx]
           res == ApiResult(api_url, r)
           sent == [Net(h) EXCEPT !.requests = h.requests + 1,
                                  !.firstYield = IF h.firstYield = 0 /\ r.val \in {"str", "nonstr"}
                                                 THEN idx ELSE h.firstYield]
       IN /\ working_api' = IF res.working THEN api_url ELSE working_api
          /\ IF LoopReturns(res.url)
             THEN /\ download_url' = res.url
                  /\ idx' = idx
                  /\ pc' = "tidal_url_ret"
                  /\ h' = sent
             ELSE /\ download_url' = NoUrl
                  /\ h' = [sent EXCEPT !.soft_only = (h.soft_only /\ r.shape \in FailShapes)]
                  /\ IF idx < Len(apis_to_try)
                     THEN idx' = idx + 1 /\ pc' = pc
                     ELSE idx' = idx /\ pc' = "tidal_url_ret"
  /\ UNCHANGED <<tidal_token, token_rejected, acquired, cache, req, caller,
                 tidal_track, apis_to_try, dataLocals, resp>>
  /\ UNCHANGED otherThanAudio

\* The inbound Range header as request.headers.get("Range") gives it: absent
\* (None), present with an empty value, or a byte range
InboundRanges == {"absent", "", "bytes=100-199"}

\* bug variant: the upstream request never carries a Range header
ForwardedRangeDropped(range_header) == "absent"

\* main.py:499-503: the Range header of the upstream request
ForwardedRange(range_header) ==
  IF range_header # "absent" /\ range_header # "" THEN range_header ELSE "absent"

\* str(e) of the TypeError that download_url[:80] raises (audio_service.py:248)
\* when the URL value is a number or an object
SliceErrors == {"'int' object is not subscriptable", "unhashable type: 'slice'"}

\* bug variant: a HEAD request goes on into the transcode fallback
AfterStreamUrlHeadFallsBack(m) == IF m = "HEAD" THEN "get_audio_stream" ELSE "hifi_send"

\* main.py:487-505: HEAD is answered with headers only, GET opens the upstream stream
AfterStreamUrl(m) == IF m = "HEAD" THEN "done" ELSE "hifi_send"

\* the caller's code after get_tidal_download_url returned (its locals are
\* gone): main.py:469-503 (stream_audio), audio_service.py:245-249 (fetch_flac).
\* m is the request's method, read at main.py:487.
tidal_url_ret ==
  /\ pc = "tidal_url_ret"
  /\ apis_to_try' = <<>>
  /\ idx' = 0
  /\ LET hh == [h EXCEPT !.start_api = None, !.soft_only = FALSE,
                          !.requests = 0, !.firstYield = 0]
     IN
     IF caller = "hifi"
     THEN IF ~Truthy(download_url)
          THEN /\ pc' = "get_audio_stream"
               /\ download_url' = NoUrl
               /\ UNCHANGED <<resp, req>>
               /\ h' = [hh EXCEPT !.proxy = "no_url"]
          ELSE IF download_url.val = "nonstr"
          THEN \* stream_url[:60] raises inside the try of main.py:456-532
               /\ pc' = "get_audio_stream"
               /\ download_url' = NoUrl
               /\ UNCHANGED <<resp, req>>
               /\ h' = [hh EXCEPT !.proxy = "raised"]
          ELSE \E m \in {"GET", "HEAD"} :
                 /\ download_url' = NoUrl
                 /\ req' = [req EXCEPT !.method = m]
                 /\ pc' = AfterStreamUrl(m)
                 /\ IF m = "HEAD"
                    THEN /\ h' = [hh EXCEPT !.resolved = TRUE, !.proxy = "head"]
                         /\ resp' = [status |-> 200, body |-> "head"]
                    ELSE /\ h' = [hh EXCEPT !.resolved = TRUE]
                         /\ resp' = resp
     ELSE IF ~Truthy(download_url)
          THEN /\ pc' = "get_deezer_track_id"
               /\ download_url' = NoUrl
               /\ UNCHANGED <<resp, req>>
               /\ h' = hh
          ELSE IF download_url.val = "nonstr"
          THEN \* download_url[:80] at audio_service.py:248 is outside the try
               /\ pc' = "stream_audio_except"
               /\ download_url' = NoUrl
               /\ UNCHANGED <<resp, req>>
               /\ \E dz \in BOOLEAN, e \in SliceErrors :
                    h' = [hh EXCEPT !.ff = "raised", !.dzAvail = dz, !.unresolved = ~dz,
                                    !.gasOut = "raised", !.exc = e]
          ELSE /\ pc' = "tidal_download"
               /\ download_url' = download_url
               /\ UNCHANGED <<resp, req>>
               /\ h' = hh
  /\ UNCHANGED <<svcAcq, cache, caller, tidal_track, dataLocals>>
  /\ UNCHANGED otherThanAudio

\* main.py:505-533
UpstreamStatus == {200, 206, 404}

\* what the upstream answers to the streamed request: a status and, each
\* present or absent, the three headers main.py:517 looks for
UpstreamResponses ==
  [status : UpstreamStatus,
   cr : {"absent", "bytes 100-199/1000"},
   cl : {"absent", "100"},
   ct : {"absent", "audio/x-flac", "non_latin1"}]

\* main.py:524-530: StreamingResponse encodes its header values as latin-1,
\* which raises for a value with a character outside that set
BuildRaises(up) == "non_latin1" \in {up.cr, up.cl, up.ct}

\* bug variant: the upstream's status is not relayed
ProxyResponseAlways200(up) ==
  [status |-> 200, body |-> "proxy",
   headers |-> [cr |-> up.cr, cl |-> up.cl,
                ct |-> IF up.ct = "absent" THEN "audio/flac" ELSE up.ct]]

\* main.py:509-530: status and headers of the response to the caller;
\* Content-Type falls back to the type detected from the URL
ProxyResponse(up) ==
  [status |-> up.status, body |-> "proxy",
   headers |-> [cr |-> up.cr, cl |-> up.cl,
                ct |-> IF up.ct = "absent" THEN "audio/flac" ELSE up.ct]]

\* main.py:498-533: the Range header is read and the request sent; the
\* awaited send returns the upstream response or raises.  The request, its
\* Range header and the upstream response are recorded when a response goes
\* back to the caller.
hifi_send ==
  /\ pc = "hifi_send"
  /\ \/ \* client.send raised: no connection, except at main.py:531
        /\ pc' = "get_audio_stream"
        /\ UNCHANGED <<resp, req>>
        /\ h' = [Net(h) EXCEPT !.proxy = "raised"]
     \/ \E range_header \in InboundRanges, up \in UpstreamResponses :
          IF BuildRaises(up)
          THEN \* raised after r was opened: except at main.py:531, r is not closed
               /\ pc' = "get_audio_stream"
               /\ UNCHANGED <<resp, req>>
               /\ h' = [Net(h) EXCEPT !.proxy = "raised", !.conn = "open"]
          ELSE /\ pc' = "relay"
               /\ req' = [req EXCEPT !.range = range_header]
               /\ resp' = ProxyResponse(up)
               /\ h' = [Net(h) EXCEPT !.proxy = "relayed", !.up = up, !.conn = "open",
                                       !.upRange = ForwardedRange(range_header)]
  /\ UNCHANGED <<svcAcq, cache, caller, tidal_track, urlLocals, dataLocals>>
  /\ UNCHANGED otherThanAudio

\* how the relay of the body ends
RelayOutcomes == {"completed", "disconnected", "failed"}

\* main.py:524-530: the body is relayed from r.aiter_bytes, then the
\* BackgroundTask runs r.aclose, also after the caller went away; when
\* reading the upstream raises, the task is skipped and the transport, which
\* closes a stream whose iteration raised, has released the connection
relay ==
  /\ pc = "relay"
  /\ \E o \in RelayOutcomes :
       h' = [h EXCEPT !.conn = IF o = "failed" THEN "released" ELSE "closed"]
  /\ pc' = "done"
  /\ UNCHANGED <<svcAcq, cache, req, caller, tidal_track, urlLocals, dataLocals, resp>>
  /\ UNCHANGED otherThanAudio


\* ------------------------------------- AudioService.get_audio_stream
\* audio_service.py:320-321
get_audio_stream ==
  /\ pc = "get_audio_stream"
  /\ h' = [h EXCEPT !.inGas = TRUE, !.gasHit = (req.isrc \in acquired),
                     !.cache0 = cache]
  /\ pc' = IF is_cached(req.isrc, "mp3") THEN "get_cached_file" ELSE "fetch_flac"
  /\ UNCHANGED <<svcAcq, cache, req, caller, tidal_track, urlLocals, dataLocals, resp>>
  /\ UNCHANGED otherThanAudio

\* audio_service.py:323-325; the file may have been removed since the check
\* bug variant: what the read gave is returned, bytes or not
AfterCachedReadReturns(cached_data) == "get_audio_stream_ret"

\* audio_service.py:324-329: if cached_data: return cached_data, else go on
AfterCachedRead(cached_data) ==
  IF cached_data # None THEN "get_audio_stream_ret" ELSE "fetch_flac"

get_cached_file ==
  /\ pc = "get_cached_file"
  /\ LET cached_data == cache[<<req.isrc, "mp3">>]
     IN /\ pc' = AfterCachedRead(cached_data)
        /\ IF cached_data # None
           THEN /\ mp3_data' = cached_data
                /\ h' = [h EXCEPT !.gasFromCache = TRUE, !.gasOut = "bytes"]
           ELSE /\ mp3_data' = mp3_data
                /\ h' = [h EXCEPT !.readEmpty = TRUE]
  /\ UNCHANGED <<svcAcq, cache, req, caller, tidal_track, urlLocals, flac_data, resp>>
  /\ UNCHANGED otherThanAudio

\* ------------------------------------------- AudioService.fetch_flac
\* audio_service.py:236-241
fetch_flac ==
  /\ pc = "fetch_flac"
  /\ h' = [h EXCEPT !.ff = "running", !.readEmpty = FALSE]
  /\ caller' = "fetch"
  /\ pc' = "get_tidal_token"
  /\ UNCHANGED <<svcAcq, cache, req, tidal_track, urlLocals, dataLocals, resp>>
  /\ UNCHANGED otherThanAudio

DownloadResponses == {"ok", "ok_empty", "non200", "exception"}

\* bug variant: Deezer is asked whatever the Tidal download answered
AfterTidalDownloadAlwaysDeezer(r) == "get_deezer_track_id"

\* audio_service.py:253-259: a 200 answer returns response.content, anything
\* else falls through to the Deezer part
AfterTidalDownload(r) ==
  IF r \in {"ok", "ok_empty"} THEN "fetch_flac_ret" ELSE "get_deezer_track_id"

\* audio_service.py:249-259
tidal_download ==
  /\ pc = "tidal_download"
  /\ download_url' = NoUrl
  /\ \E r \in DownloadResponses :
       /\ pc' = AfterTidalDownload(r)
       /\ IF r \in {"ok", "ok_empty"}
          THEN /\ flac_data' = IF r = "ok" THEN "tidal_flac" ELSE "empty"
               /\ h' = [Net(h) EXCEPT !.tidalBytes = TRUE,
                                       !.ff = IF AfterTidalDownload(r) = "fetch_flac_ret"
                                              THEN "returned" ELSE h.ff]
          ELSE /\ flac_data' = flac_data
               /\ h' = Net(h)
  /\ UNCHANGED <<svcAcq, cache, req, caller, tidal_track, apis_to_try, idx, mp3_data, resp>>
  /\ UNCHANGED otherThanAudio

\* audio_service.py:199-212, called at 263-265; dz: Deezer has the ISRC and
\* every Deezer step of this resolution succeeds (otherwise some step fails)
get_deezer_track_id ==
  /\ pc = "get_deezer_track_id"
  /\ \E dz \in BOOLEAN, r \in {"id", "none"} :
       /\ dz => r = "id"
       /\ IF r = "id"
          THEN /\ pc' = "get_deezer_download_url"
               /\ h' = [Net(h) EXCEPT !.dzTried = TRUE, !.dzAvail = dz]
          ELSE /\ pc' = "fetch_flac_ret"
               /\ h' = [Net(h) EXCEPT !.dzTried = TRUE, !.dzAvail = dz, !.ff = "returned"]
  /\ UNCHANGED <<svcAcq, cache, req, caller, tidal_track, urlLocals, dataLocals, resp>>
  /\ UNCHANGED otherThanAudio

\* audio_service.py:214-234, called at 266-268
get_deezer_download_url ==
  /\ pc = "get_deezer_download_url"
  /\ \E r \in {"url", "none"} :
       /\ h.dzAvail => r = "url"
       /\ IF r = "url"
          THEN pc' = "deezer_download" /\ h' = Net(h)
          ELSE pc' = "fetch_flac_ret" /\ h' = [Net(h) EXCEPT !.ff = "returned"]
  /\ UNCHANGED <<svcAcq, cache, req, caller, tidal_track, urlLocals, dataLocals, resp>>
  /\ UNCHANGED otherThanAudio

\* audio_service.py:270-279
deezer_download ==
  /\ pc = "deezer_download"
  /\ \E r \in DownloadResponses :
       /\ h.dzAvail <=> r = "ok"
       /\ flac_data' = CASE r = "ok" -> "deezer_flac"
                         [] r = "ok_empty" -> "empty"
                         [] OTHER -> None
       /\ h' = [Net(h) EXCEPT !.ff = "returned"]
       /\ pc' = "fetch_flac_ret"
  /\ UNCHANGED <<svcAcq, cache, req, caller, tidal_track, urlLocals, mp3_data, resp>>
  /\ UNCHANGED otherThanAudio

\* audio_service.py:329-332: get_audio_stream after fetch_flac returned
fetch_flac_ret ==
  /\ pc = "fetch_flac_ret"
  /\ IF flac_data \in {None, "empty"}
     THEN /\ mp3_data' = None
          /\ pc' = "get_audio_stream_ret"
          /\ h' = [h EXCEPT !.unresolved = TRUE, !.gasOut = "none"]
     ELSE /\ mp3_data' = mp3_data
          /\ pc' = "transcode_to_mp3"
          /\ h' = [h EXCEPT !.resolved = TRUE]
  /\ UNCHANGED <<svcAcq, cache, req, caller, tidal_track, urlLocals, flac_data, resp>>
  /\ UNCHANGED otherThanAudio

\* ------------------------------------ AudioService.transcode_to_mp3
EncoderOutcomes == {"ok", "ok_empty", "nonzero_exit", "ffmpeg_missing", "exception"}

\* bug variant: the exit code is not looked at, what the encoder wrote is returned
TranscodeResultIgnoreExit(o) ==
  CASE o \in {"ok", "nonzero_exit"} -> "mp3"
    [] o = "ok_empty" -> "empty"
    [] OTHER -> None

\* audio_service.py:281-315: the value returned for an encoder outcome
TranscodeResult(o) ==
  CASE o = "ok" -> "mp3"
    [] o = "ok_empty" -> "empty"
    [] OTHER -> None

\* bug variant: whatever transcode_to_mp3 returned is handed to cache_file
CacheableAlways(mp3) == TRUE

\* audio_service.py:338: if mp3_data
Cacheable(mp3) == mp3 \notin {None, "empty"}

\* audio_service.py:334-338
transcode_to_mp3 ==
  /\ pc = "transcode_to_mp3"
  /\ \E o \in EncoderOutcomes :
       /\ mp3_data' = TranscodeResult(o)
       /\ h' = [h EXCEPT !.encFailed = (o \in {"nonzero_exit", "ffmpeg_missing", "exception"}),
                          !.enc = o,
                          !.gasOut = IF Cacheable(TranscodeResult(o))
                                     THEN h.gasOut ELSE "none"]
       /\ pc' = IF Cacheable(TranscodeResult(o))
                THEN "cache_file" ELSE "get_audio_stream_ret"
  /\ UNCHANGED <<svcAcq, cache, req, caller, tidal_track, urlLocals, flac_data, resp>>
  /\ UNCHANGED otherThanAudio

\* app.cache.cache_file: the file is committed, or the write fails with
\* CacheWriteError and no entry becomes visible
CacheWriteOutcomes == {"committed", "CacheWriteError"}

\* audio_service.py:338-342: the await of cache_file is not inside a try
cache_file ==
  /\ pc = "cache_file"
  /\ \E w \in CacheWriteOutcomes :
       IF w = "committed"
       THEN /\ cache' = [cache EXCEPT ![<<req.isrc, "mp3">>] = mp3_data]
            /\ acquired' = acquired \cup {req.isrc}
            /\ h' = [h EXCEPT !.wrote = TRUE, !.gasOut = "bytes"]
            /\ pc' = "get_audio_stream_ret"
       ELSE /\ cache' = cache
            /\ acquired' = acquired
            /\ h' = [h EXCEPT !.cacheWriteFailed = TRUE, !.gasOut = "raised", !.exc = w]
            /\ pc' = "stream_audio_except"
  /\ UNCHANGED <<svc, req, caller, tidal_track, urlLocals, dataLocals, resp>>
  /\ UNCHANGED otherThanAudio

\* main.py:536-548: stream_audio after get_audio_stream returned
get_audio_stream_ret ==
  /\ pc = "get_audio_stream_ret"
  /\ resp' = IF mp3_data \in {None, "empty"}
             THEN [status |-> 404, body |-> None]
             ELSE [status |-> 200, body |-> "mp3"]
  /\ pc' = "done"
  /\ UNCHANGED <<svcAcq, cache, req, caller, tidal_track, urlLocals, dataLocals, h>>
  /\ UNCHANGED otherThanAudio

\* main.py:564-566 and 601-603
\* every str(e) the except Exception of a handler can see: for stream_audio
\* what get_audio_stream raises, for download_audio what get_download_audio raises
ExceptionDetails(kind) ==
  IF kind = "stream" THEN SliceErrors \cup {"CacheWriteError"} ELSE {"EncoderFailure"}

\* main.py:564-566 and 601-603: HTTPException(status_code=500, detail=str(e));
\* the body {"detail": str(e)} is written as its detail text
ErrorBody(e) == e

\* main.py:562-566
stream_audio_except ==
  /\ pc = "stream_audio_except"
  /\ resp' = [status |-> 500, body |-> ErrorBody(h.exc)]
  /\ pc' = "done"
  /\ UNCHANGED <<svcAcq, cache, req, caller, tidal_track, urlLocals, dataLocals, h>>
  /\ UNCHANGED otherThanAudio

\* ------------------------- AudioService.stream_audio_generator (streamed mode)
\* main.py:553-560 has answered 200 before this runs
stream_audio_generator ==
  /\ pc = "stream_audio_generator"
  /\ \E found \in BOOLEAN :
       /\ h' = [Net(h) EXCEPT !.unresolved = ~found, !.resolved = found]
       /\ pc' = IF found THEN "generator_stream" ELSE "done"
  /\ UNCHANGED <<svcAcq, cache, req, caller, tidal_track, urlLocals, dataLocals, resp>>
  /\ UNCHANGED otherThanAudio

generator_stream ==
  /\ pc = "generator_stream"
  /\ \/ /\ cache' = [cache EXCEPT ![<<req.isrc, "mp3">>] = "mp3"]
        /\ h' = h
     \/ /\ cache' = cache
        /\ \E enc \in BOOLEAN : h' = [h EXCEPT !.encFailed = enc]
  /\ pc' = "done"
  /\ UNCHANGED <<svcAcq, req, caller, tidal_track, urlLocals, dataLocals, resp>>
  /\ UNCHANGED otherThanAudio

\* ------------------------------------------- main.py download_audio
\* main.py:569-580
download_audio(i, hint, fmt) ==
  /\ pc = "idle"
  /\ req' = [kind |-> "download", isrc |-> i, q |-> hint, hifi |-> FALSE,
             method |-> "GET", format |-> fmt, range |-> None]
  /\ h' = [NoHist EXCEPT !.hitExpected = (i \in acquired)]
  /\ pc' = "get_download_audio"
  /\ UNCHANGED <<svcAcq, cache, caller, tidal_track, urlLocals, dataLocals, resp>>
  /\ UNCHANGED otherThanAudio

\* AudioService.get_download_audio (buffered mode), then main.py:582-597
get_download_audio ==
  /\ pc = "get_download_audio"
  /\ IF is_cached(req.isrc, req.format)
     THEN /\ resp' = [status |-> 200, body |-> "cache"]
          /\ h' = h
          /\ pc' = "done"
     ELSE \E found \in BOOLEAN :
            /\ h' = [Net(h) EXCEPT !.unresolved = ~found, !.resolved = found]
            /\ IF found
               THEN pc' = "download_transcode" /\ resp' = resp
               ELSE pc' = "done" /\ resp' = [status |-> 404, body |-> None]
  /\ UNCHANGED <<svcAcq, cache, req, caller, tidal_track, urlLocals, dataLocals>>
  /\ UNCHANGED otherThanAudio

download_transcode ==
  /\ pc = "download_transcode"
  /\ \/ /\ \E stored \in BOOLEAN :
             cache' = IF stored THEN [cache EXCEPT ![<<req.isrc, req.format>>] = req.format]
                      ELSE cache
        /\ resp' = [status |-> 200, body |-> "download"]
        /\ h' = h
     \/ /\ req.format # "flac"
        /\ cache' = cache
        /\ resp' = [status |-> 500, body |-> ErrorBody("EncoderFailure")]
        /\ h' = [h EXCEPT !.encFailed = TRUE, !.exc = "EncoderFailure"]
  /\ pc' = "done"
  /\ UNCHANGED <<svcAcq, req, caller, tidal_track, urlLocals, dataLocals>>
  /\ UNCHANGED otherThanAudio

\* -------------------------------------------- app.cache.cleanup_cache
\* the periodic sweep started at main.py:51 removes an entry
cleanup_cache ==
  /\ \E k \in CacheKeys :
       /\ cache[k] # None
       /\ cache' = [cache EXCEPT ![k] = None]
       /\ acquired' = IF k[2] = "mp3" THEN acquired \ {k[1]} ELSE acquired
       /\ h' = IF k = <<req.isrc, "mp3">>
               THEN [h EXCEPT !.hitExpected = FALSE, !.gasHit = FALSE, !.wrote = FALSE,
                              !.cache0 = [h.cache0 EXCEPT ![k] = None]]
               ELSE [h EXCEPT !.cache0 = [h.cache0 EXCEPT ![k] = None]]
  /\ UNCHANGED <<svc, pc, req, caller, tidal_track, urlLocals, dataLocals, resp>>
  /\ UNCHANGED otherThanAudio

\* the response has been sent: the handler's locals go away
finish ==
  /\ pc = "done"
  /\ pc' = "idle"
  /\ req' = NoReq
  /\ caller' = None
  /\ tidal_track' = None
  /\ apis_to_try' = <<>>
  /\ idx' = 0
  /\ download_url' = NoUrl
  /\ flac_data' = None
  /\ mp3_data' = None
  /\ resp' = NoResp
  /\ h' = NoHist
  /\ UNCHANGED <<svcAcq, cache>>
  /\ UNCHANGED otherThanAudio

Next ==
  \/ \E i \in Isrcs, hint \in BOOLEAN, hf \in BOOLEAN : stream_audio(i, hint, hf)
  \/ \E i \in Isrcs, hint \in BOOLEAN, fmt \in Exts : download_audio(i, hint, fmt)
  \/ get_tidal_token
  \/ search_tidal_by_isrc
  \/ get_tidal_download_url
  \/ get_tidal_download_url_from_api
  \/ tidal_url_ret
  \/ hifi_send
  \/ relay
  \/ get_audio_stream
  \/ get_cached_file
  \/ fetch_flac
  \/ tidal_download
  \/ get_deezer_track_id
  \/ get_deezer_download_url
  \/ deezer_download
  \/ fetch_flac_ret
  \/ transcode_to_mp3
  \/ cache_file
  \/ get_audio_stream_ret
  \/ stream_audio_except
  \/ stream_audio_generator
  \/ generator_stream
  \/ get_download_audio
  \/ download_transcode
  \/ cleanup_cache
  \/ finish

Spec == Init /\ [][Next]_vars


\* ===================================================== SpotifyService
SpotifyOps == {"search_tracks", "get_track_by_id", "get_album"}

\* spotify_service.py:95-97, 100-103, 132-135: a method calls _api_request,
\* which calls _get_access_token (73-75)
spotify_call(op) ==
  /\ sp.pc = "idle"
  /\ sp' = [NoSp EXCEPT !.pc = "_get_access_token", !.op = op,
                        !.rejected = sp.rejected, !.after_failure = sp.after_failure]
  /\ UNCHANGED access_token
  /\ UNCHANGED otherThanSpotify

\* spotify_service.py:38-39
MemoizedToken(tok) == tok # 0

get_access_token ==
  /\ sp.pc = "_get_access_token"
  /\ IF MemoizedToken(access_token)
     THEN sp' = [sp EXCEPT !.pc = "_api_request", !.memo = TRUE, !.token = access_token,
                           !.had = access_token]
     ELSE sp' = [sp EXCEPT !.pc = "token_primary", !.had = access_token]
  /\ UNCHANGED access_token
  /\ UNCHANGED otherThanSpotify

PrimaryResponses == {"ok", "ok_no_token", "non200", "bad_json", "exception"}

\* bug variant: the direct fetch never returns, the embed page is always fetched
AfterPrimaryAlwaysFallback(r) == "token_fallback"

\* spotify_service.py:49-58: the embed page is fetched unless the direct
\* fetch returned a token
AfterPrimary(r) == IF r = "ok" THEN "_api_request" ELSE "token_fallback"

\* bug variant: a 200 answer without accessToken stores a placeholder token
StoredByPrimaryPlaceholder(r, cur) == IF r = "ok_no_token" THEN 1 ELSE cur

\* spotify_service.py:48-51: what self.access_token is after a direct fetch
\* that gave no token; only a 200 answer with JSON assigns it, data.get gives None
StoredByPrimary(r, cur) == IF r = "ok_no_token" THEN 0 ELSE cur

\* spotify_service.py:47-56
token_primary ==
  /\ sp.pc = "token_primary"
  /\ \E r \in PrimaryResponses :
       IF r = "ok"
       THEN \E t \in Tokens :
              /\ access_token' = t
              /\ sp' = [sp EXCEPT !.pc = AfterPrimary(r), !.primary = r,
                                  !.primaryTries = sp.primaryTries + 1,
                                  !.token = t, !.rejected = FALSE]
       ELSE /\ access_token' = StoredByPrimary(r, access_token)
            /\ sp' = [sp EXCEPT !.pc = AfterPrimary(r), !.primary = r,
                                !.primaryTries = sp.primaryTries + 1]
  /\ UNCHANGED otherThanSpotify

SecondaryResponses == {"match", "no_match", "non200", "exception"}

\* spotify_service.py:58-71
token_fallback ==
  /\ sp.pc = "token_fallback"
  /\ \E r \in SecondaryResponses :
       IF r = "match"
       THEN \E t \in Tokens :
              /\ access_token' = t
              /\ sp' = [sp EXCEPT !.pc = "_api_request", !.secondary = r,
                                  !.secondaryTries = sp.secondaryTries + 1,
                                  !.token = t, !.rejected = FALSE]
       ELSE /\ access_token' = access_token
            /\ sp' = [sp EXCEPT !.pc = "sp_ret", !.secondary = r,
                                !.secondaryTries = sp.secondaryTries + 1,
                                !.raised = TRUE, !.api = "not_sent"]
  /\ UNCHANGED otherThanSpotify

ApiAnswers == {"ok", "status_401", "status_other", "exception"}

\* spotify_service.py:76-83
api_request ==
  /\ sp.pc = "_api_request"
  /\ \E r \in ApiAnswers :
       sp' = [sp EXCEPT !.pc = "sp_ret", !.api = r,
                        !.rejected = (sp.rejected \/ r = "status_401")]
  /\ UNCHANGED access_token
  /\ UNCHANGED otherThanSpotify

\* spotify_service.py:97-98, 104-106, 134-161: the method's own handling
spotify_return ==
  /\ sp.pc = "sp_ret"
  /\ sp' = [sp EXCEPT !.pc = "sp_done",
                      !.out = IF sp.api = "ok" THEN "data"
                              ELSE IF sp.op = "search_tracks" THEN "raised"
                              ELSE "None"]
  /\ UNCHANGED access_token
  /\ UNCHANGED otherThanSpotify

spotify_finish ==
  /\ sp.pc = "sp_done"
  /\ sp' = [NoSp EXCEPT !.rejected = sp.rejected, !.after_failure = sp.raised]
  /\ UNCHANGED access_token
  /\ UNCHANGED otherThanSpotify

NextSpotify ==
  \/ \E op \in SpotifyOps : spotify_call(op)
  \/ get_access_token
  \/ token_primary
  \/ token_fallback
  \/ api_request
  \/ spotify_return
  \/ spotify_finish

SpecSpotify == Init /\ [][NextSpotify]_vars


\* ============================================== main.py download_batch
\* display names and artists as sequences of characters
DisplayNames == { <<"A">>, <<"A", " ", "(", "1", ")">>, <<"A", "?">>,
                  <<"A", "/">>, <<"A", "_">> }
ArtistNames == { <<"X">> }

\* BatchDownloadRequest.format defaults to "mp3" (main.py:766); the extension
\* get_download_audio returns for it
BatchExt == <<".mp3">>

\* main.py:790: "/", "\\" and ":" become "_"; * ? " < > | are removed
Sanitize(str) ==
  LET kept == SelectSeq(str, LAMBDA ch : ch \notin {"*", "?", "\"", "<", ">", "|"})
  IN [k \in 1..Len(kept) |-> IF kept[k] \in {"/", "\\", ":"} THEN "_" ELSE kept[k]]

\* main.py:790: f"{artist} - {name}" cleaned
SafeName(artist, name) == Sanitize(artist \o <<" ", "-", " ">> \o name)

DigitChars == <<"0", "1", "2", "3", "4", "5", "6", "7", "8", "9">>

\* str(count) of main.py:797
RECURSIVE StrOfInt(_)
StrOfInt(c) ==
  IF c < 10 THEN <<DigitChars[c + 1]>>
  ELSE StrOfInt(c \div 10) \o <<DigitChars[(c % 10) + 1]>>

\* main.py:796-798: the while loop from a given count
RECURSIVE Suffixed(_, _, _, _)
Suffixed(safe_name, ext, used_names, count) ==
  LET filename == safe_name \o <<" ", "(">> \o StrOfInt(count) \o <<")">> \o ext
  IN IF filename \in used_names
     THEN Suffixed(safe_name, ext, used_names, count + 1)
     ELSE filename

\* bug variant: a taken name gets the suffix (1) without looking again
UniqueNameOneSuffix(safe_name, ext, used_names) ==
  IF (safe_name \o ext) \in used_names
  THEN safe_name \o <<" ", "(", "1", ")">> \o ext
  ELSE safe_name \o ext

\* main.py:791-798: the filename written for an entry
UniqueName(safe_name, ext, used_names) ==
  IF (safe_name \o ext) \in used_names
  THEN Suffixed(safe_name, ext, used_names, 1)
  ELSE safe_name \o ext

\* the loop goes on with the next track, or leaves the with block
NextEntry(b) ==
  [b EXCEPT !.i = b.i + 1, !.name = <<>>, !.artist = <<>>,
            !.pc = IF b.i < b.n THEN "loop" ELSE "zip_done"]

\* bug variant: an entry's exception ends the whole batch with a 500
EntryFailedAborts(b) ==
  [b EXCEPT !.failed = b.failed \cup {b.i}, !.inflight = b.inflight \ {b.i},
            !.pc = "done", !.status = 500, !.zip_file = <<>>]

\* main.py:802-804: the entry's exception is logged, the loop continues
EntryFailed(b) ==
  NextEntry([b EXCEPT !.failed = b.failed \cup {b.i},
                      !.inflight = b.inflight \ {b.i}])

\* bug variant: the acquisition is started but not awaited
StartAcquisitionNoAwait(b, names_i, artists_i) ==
  NextEntry([b EXCEPT !.inflight = b.inflight \cup {b.i}])

\* main.py:784-785: the query is built and get_download_audio is awaited
StartAcquisition(b, names_i, artists_i) ==
  [b EXCEPT !.pc = "acquiring", !.name = names_i, !.artist = artists_i,
            !.inflight = b.inflight \cup {b.i}]

\* main.py:769-782
download_batch(n) ==
  /\ batch.pc = "idle"
  /\ batch' = [NoBatch EXCEPT !.n = n, !.i = 1,
                               !.pc = IF n > 0 THEN "loop" ELSE "zip_done"]
  /\ UNCHANGED otherThanBatch

\* main.py:782-785: request.names[i] or request.artists[i] raises IndexError
\* when the list is shorter than request.tracks
batch_entry ==
  /\ batch.pc = "loop"
  /\ \/ \E names_i \in DisplayNames, artists_i \in ArtistNames :
          /\ ~batch.short
          /\ batch' = StartAcquisition(batch, names_i, artists_i)
     \/ batch' = EntryFailed([batch EXCEPT !.short = TRUE])
  /\ UNCHANGED otherThanBatch

\* AudioService.get_download_audio for one entry: a (data, ext, mime) result,
\* nothing, or an exception
AcquireOutcomes == {"result", "None", "raises"}

\* main.py:785-804
batch_acquired ==
  /\ batch.pc = "acquiring"
  /\ \E o \in AcquireOutcomes :
       IF o = "result"
       THEN LET filename == UniqueName(SafeName(batch.artist, batch.name), BatchExt,
                                       batch.used_names)
            IN batch' = NextEntry(
                 [batch EXCEPT !.used_names = batch.used_names \cup {filename},
                               !.zip_file = Append(batch.zip_file,
                                                   [filename |-> filename, track |-> batch.i]),
                               !.ok = batch.ok \cup {batch.i},
                               !.inflight = batch.inflight \ {batch.i}])
       ELSE batch' = EntryFailed(batch)
  /\ UNCHANGED otherThanBatch

\* main.py:806-816
batch_respond ==
  /\ batch.pc = "zip_done"
  /\ batch' = [batch EXCEPT !.pc = "done", !.status = 200]
  /\ UNCHANGED otherThanBatch

\* the response has been sent
batch_finish ==
  /\ batch.pc = "done"
  /\ batch' = NoBatch
  /\ UNCHANGED otherThanBatch

NextBatch ==
  \/ \E n \in 0..MaxTracks : download_batch(n)
  \/ batch_entry
  \/ batch_acquired
  \/ batch_respond
  \/ batch_finish

SpecBatch == Init /\ [][NextBatch]_vars


\* ============================ concurrent requests for the same identity
\* Every step below is run by the event loop, from one suspension point of a
\* request to its next; a step can run only when the loop is free.

\* bug variant: cache_file writes the final path in place
WritePathInPlace(p) == FinalPath

\* bug variant: every cache_file writes the same temporary path
WritePathSharedTemp(p) == TempPath(1)

\* app.cache.cache_file: where the bytes are written before promotion
WritePath(p) == TempPath(p)

\* bug variant: transcode_to_mp3 is called on the event loop
LoopDuringTranscodeBlocked(p) == p

\* audio_service.py:335-336: await loop.run_in_executor(...) hands the
\* transcode to a worker thread and gives the loop back
LoopDuringTranscode(p) == 0

\* app.cache.is_cached: a file is at the final path
Exists(d) == d[FinalPath].exists

Started(p, kind) ==
  [NoTask EXCEPT !.kind = kind,
                 !.during = {q \in Requests \ {p} : task[q].pc = "transcoding"}]

\* audio_service.py:317-329, up to the first await
gas_start(p) ==
  /\ loop = 0
  /\ task[p].pc = "idle"
  /\ task' = [task EXCEPT ![p] =
       [Started(p, "get_audio_stream") EXCEPT
          !.pc = IF Exists(disk) THEN "get_cached_file" ELSE "fetch_flac",
          !.missed = ~Exists(disk)]]
  /\ UNCHANGED <<disk, loop>>
  /\ UNCHANGED otherThanConc

\* audio_service.py:323-329: the read of the entry
gas_get_cached_file(p) ==
  /\ loop = 0
  /\ task[p].pc = "get_cached_file"
  /\ task' = [task EXCEPT ![p] =
       IF disk[FinalPath].exists /\ disk[FinalPath].data # <<>>
       THEN [@ EXCEPT !.pc = "done", !.served = "cache", !.got = disk[FinalPath].data]
       ELSE [@ EXCEPT !.pc = "fetch_flac"]]
  /\ UNCHANGED <<disk, loop>>
  /\ UNCHANGED otherThanConc

\* audio_service.py:329-336: fetch_flac answers, then the transcode is submitted
gas_fetch_flac(p) ==
  /\ loop = 0
  /\ task[p].pc = "fetch_flac"
  /\ \E found \in BOOLEAN :
       IF found
       THEN /\ task' = [task EXCEPT ![p].pc = "transcoding"]
            /\ loop' = LoopDuringTranscode(p)
       ELSE /\ task' = [task EXCEPT ![p].pc = "done", ![p].served = "none"]
            /\ loop' = loop
  /\ UNCHANGED disk
  /\ UNCHANGED otherThanConc

\* audio_service.py:336-342: the worker thread is done; no output ends the request
gas_transcode_done(p) ==
  /\ loop \in {0, p}
  /\ task[p].pc = "transcoding"
  /\ \E ok \in BOOLEAN :
       task' = [q \in Requests |->
                 IF q = p
                 THEN IF ok THEN [task[p] EXCEPT !.pc = "cache_file"]
                      ELSE [task[p] EXCEPT !.pc = "done", !.served = "none"]
                 ELSE [task[q] EXCEPT !.during = @ \ {p}]]
  /\ loop' = 0
  /\ UNCHANGED disk
  /\ UNCHANGED otherThanConc

\* app.cache.cache_file: the file is created (truncated) and the first chunk written
cf_open(p) ==
  /\ loop = 0
  /\ task[p].pc = "cache_file"
  /\ disk' = [disk EXCEPT ![WritePath(p)] = [exists |-> TRUE, data |-> <<p>>]]
  /\ task' = [task EXCEPT ![p].pc = IF WriteChunks = 1 THEN "cf_promote" ELSE "cf_write",
                           ![p].n = 1]
  /\ UNCHANGED loop
  /\ UNCHANGED otherThanConc

\* app.cache.cache_file: the next chunk is written
cf_write(p) ==
  /\ loop = 0
  /\ task[p].pc = "cf_write"
  /\ disk' = IF disk[WritePath(p)].exists
             THEN [disk EXCEPT ![WritePath(p)].data = Append(@, p)]
             ELSE disk
  /\ task' = [task EXCEPT ![p].pc = IF task[p].n + 1 = WriteChunks THEN "cf_promote" ELSE "cf_write",
                           ![p].n = @ + 1]
  /\ UNCHANGED loop
  /\ UNCHANGED otherThanConc

\* app.cache.cache_file: the written file is renamed to the final path, then
\* audio_service.py:342 returns the request's own mp3_data
cf_promote(p) ==
  /\ loop = 0
  /\ task[p].pc = "cf_promote"
  /\ disk' = IF WritePath(p) # FinalPath /\ disk[WritePath(p)].exists
             THEN [disk EXCEPT ![FinalPath] = disk[WritePath(p)], ![WritePath(p)] = NoFile]
             ELSE disk
  /\ task' = [q \in Requests |->
               IF q = p
               THEN [task[p] EXCEPT !.pc = "done", !.served = "bytes", !.got = Output(p),
                                    !.n = 0]
               ELSE task[q]]
  /\ UNCHANGED loop
  /\ UNCHANGED otherThanConc

\* app.cache.cache_file: the write fails (disk full, I/O error); the
\* temporary file is discarded and the error is raised to get_audio_stream
cf_fail(p) ==
  /\ loop = 0
  /\ task[p].pc \in {"cf_write", "cf_promote"}
  /\ disk' = IF WritePath(p) # FinalPath
             THEN [disk EXCEPT ![WritePath(p)] = NoFile]
             ELSE disk
  /\ task' = [task EXCEPT ![p].pc = "done", ![p].served = "raised", ![p].n = 0]
  /\ UNCHANGED loop
  /\ UNCHANGED otherThanConc

\* the write is killed mid-flight: nothing of cache_file runs any more and
\* what it had written stays where it is
cf_kill(p) ==
  /\ loop = 0
  /\ task[p].pc \in {"cf_write", "cf_promote"}
  /\ task' = [task EXCEPT ![p].pc = "done", ![p].served = "killed", ![p].n = 0]
  /\ UNCHANGED <<disk, loop>>
  /\ UNCHANGED otherThanConc

\* main.py:444-452: the cache check of stream_audio for an mp3 request
sa_start(p) ==
  /\ loop = 0
  /\ task[p].pc = "idle"
  /\ Exists(disk)
  /\ task' = [task EXCEPT ![p] = [Started(p, "stream_audio") EXCEPT !.pc = "FileResponse"]]
  /\ UNCHANGED <<disk, loop>>
  /\ UNCHANGED otherThanConc

\* main.py:448-452: FileResponse sends the file at cache_path
sa_file_response(p) ==
  /\ loop = 0
  /\ task[p].pc = "FileResponse"
  /\ task' = [task EXCEPT ![p] =
       IF disk[FinalPath].exists
       THEN [@ EXCEPT !.pc = "done", !.served = "file", !.got = disk[FinalPath].data]
       ELSE [@ EXCEPT !.pc = "done", !.served = "gone"]]
  /\ UNCHANGED <<disk, loop>>
  /\ UNCHANGED otherThanConc

\* app.cache.cleanup_cache (main.py:48-51): the sweep removes the entry
conc_cleanup_cache ==
  /\ loop = 0
  /\ Exists(disk)
  /\ disk' = [disk EXCEPT ![FinalPath] = NoFile]
  /\ task' = [q \in Requests |->
               IF task[q].served = "bytes" THEN [task[q] EXCEPT !.evicted = TRUE]
               ELSE task[q]]
  /\ UNCHANGED loop
  /\ UNCHANGED otherThanConc

\* the response has been sent
conc_finish(p) ==
  /\ loop = 0
  /\ task[p].pc = "done"
  /\ task' = [task EXCEPT ![p] = NoTask]
  /\ UNCHANGED <<disk, loop>>
  /\ UNCHANGED otherThanConc

NextConc ==
  \/ \E p \in Requests : gas_start(p)
  \/ \E p \in Requests : gas_get_cached_file(p)
  \/ \E p \in Requests : gas_fetch_flac(p)
  \/ \E p \in Requests : gas_transcode_done(p)
  \/ \E p \in Requests : cf_open(p)
  \/ \E p \in Requests : cf_write(p)
  \/ \E p \in Requests : cf_promote(p)
  \/ \E p \in Requests : cf_fail(p)
  \/ \E p \in Requests : cf_kill(p)
  \/ \E p \in Requests : sa_start(p)
  \/ \E p \in Requests : sa_file_response(p)
  \/ conc_cleanup_cache
  \/ \E p \in Requests : conc_finish(p)

SpecConc == Init /\ [][NextConc]_vars

\* --------------------------------------------- transcode_to_mp3 steps
\* line 286: Popen starts the encoder with three pipes; communicate closes
\* stdin at once when there is no input
tc_popen ==
  /\ tc.pc = "idle"
  /\ \E n \in 0..MaxInput : \E w \in NextWants(NoTranscode) :
       tc' = [NoTranscode EXCEPT !.pc = "communicate", !.input0 = n, !.input = n,
                                 !.stdin_open = (n > 0), !.enc = "running", !.want = w]
  /\ UNCHANGED otherThanTranscode

\* lines 310-312: the encoder binary is missing
tc_not_found ==
  /\ tc.pc = "idle"
  /\ tc' = [NoTranscode EXCEPT !.pc = "returned", !.result = NoneResult]
  /\ UNCHANGED otherThanTranscode

\* communicate writes one chunk when stdin has room, and closes stdin after
\* the last one
tc_write ==
  /\ tc.pc = "communicate" /\ tc.stdin_open /\ tc.enc = "running"
  /\ tc.input > 0 /\ tc.inp < PipeCap
  /\ tc' = Mark([tc EXCEPT !.input = @ - 1, !.inp = @ + 1,
                            !.stdin_open = (tc.input - 1 > 0)])
  /\ UNCHANGED otherThanTranscode

\* the encoder is gone: the write fails with BrokenPipeError, which
\* communicate ignores, and stdin is closed
tc_broken_pipe ==
  /\ tc.pc = "communicate" /\ tc.stdin_open /\ tc.enc = "exited"
  /\ tc' = [tc EXCEPT !.stdin_open = FALSE]
  /\ UNCHANGED otherThanTranscode

tc_read_stdout ==
  /\ tc.pc = "communicate" /\ ParentReads(tc) /\ tc.outp > 0
  /\ tc' = Mark([tc EXCEPT !.outp = @ - 1, !.mp3_data = @ + 1])
  /\ UNCHANGED otherThanTranscode

tc_read_stderr ==
  /\ tc.pc = "communicate" /\ ParentReads(tc) /\ tc.errp > 0
  /\ tc' = Mark([tc EXCEPT !.errp = @ - 1, !.stderr = @ + 1])
  /\ UNCHANGED otherThanTranscode

\* communicate returns at end of file on stdout and stderr with stdin
\* closed and the exit status collected; lines 303-308 follow
tc_return ==
  /\ tc.pc = "communicate" /\ tc.enc = "exited" /\ ~tc.stdin_open
  /\ ParentReads(tc) /\ tc.outp = 0 /\ tc.errp = 0
  /\ tc' = [tc EXCEPT !.pc = "returned", !.result = CommunicateResult(tc)]
  /\ UNCHANGED otherThanTranscode

\* the encoder: each step completes the operation it is blocked in and
\* commits to the next one
enc_read ==
  /\ tc.pc = "communicate" /\ tc.enc = "running" /\ tc.want = "read"
  /\ \/ /\ tc.inp > 0
        /\ \E w \in NextWants(tc) : tc' = Mark([tc EXCEPT !.inp = @ - 1, !.want = w])
     \/ /\ tc.inp = 0 /\ ~tc.stdin_open
        /\ \E w \in NextWants([tc EXCEPT !.eof = TRUE]) :
             tc' = Mark([tc EXCEPT !.eof = TRUE, !.want = w])
  /\ UNCHANGED otherThanTranscode

enc_emit ==
  /\ tc.pc = "communicate" /\ tc.enc = "running" /\ tc.want = "emit"
  /\ tc.outp < PipeCap
  /\ \E w \in NextWants([tc EXCEPT !.produced = @ + 1]) :
       tc' = Mark([tc EXCEPT !.outp = @ + 1, !.produced = @ + 1, !.want = w])
  /\ UNCHANGED otherThanTranscode

enc_diag ==
  /\ tc.pc = "communicate" /\ tc.enc = "running" /\ tc.want = "diag"
  /\ tc.errp < PipeCap
  /\ \E w \in NextWants([tc EXCEPT !.diag = @ + 1]) :
       tc' = Mark([tc EXCEPT !.errp = @ + 1, !.diag = @ + 1, !.want = w])
  /\ UNCHANGED otherThanTranscode

\* the encoder exits, with status 0 or not, and its ends of the pipes close
enc_exit ==
  /\ tc.pc = "communicate" /\ tc.enc = "running" /\ tc.want = "exit"
  /\ \E code \in {0, 1} :
       tc' = [tc EXCEPT !.enc = "exited", !.want = "none", !.returncode = code]
  /\ UNCHANGED otherThanTranscode

ParentStep ==
  \/ tc_write
  \/ tc_broken_pipe
  \/ tc_read_stdout
  \/ tc_read_stderr
  \/ tc_return

EncoderStep ==
  \/ enc_read
  \/ enc_emit
  \/ enc_diag
  \/ enc_exit

NextTranscode ==
  \/ tc_popen
  \/ tc_not_found
  \/ ParentStep
  \/ EncoderStep

\* the caller's thread and the encoder process are both scheduled by the
\* operating system: neither is held back forever while it can take a step
SpecTranscode ==
  Init /\ [][NextTranscode]_vars /\ WF_vars(ParentStep) /\ WF_vars(EncoderStep)

\* ------------------------------ concurrent get_tidal_download_url steps
\* audio_service.py:185-192 and 114-117: the call builds its list and sends
\* the request to the first endpoint
resolve_start(p) ==
  /\ rs[p].pc = "idle"
  /\ rs' = [rs EXCEPT ![p] = [pc |-> "awaiting", apis_to_try |-> TryList(working_api),
                              idx |-> 1, download_url |-> NoUrl]]
  /\ UNCHANGED <<working_api, attempts>>
  /\ UNCHANGED otherThanResolution

\* audio_service.py:119-179 and 193-197: the answer arrives; the endpoint is
\* recorded if a URL field was found, the call returns a truthy URL or sends
\* the request to the next endpoint
resolve_response(p) ==
  /\ rs[p].pc = "awaiting"
  /\ \E r \in ApiResponses :
       LET api_url == rs[p].apis_to_try[rs[p].idx]
           res == ApiResult(api_url, r)
       IN /\ working_api' = IF res.working THEN api_url ELSE working_api
          /\ attempts' = IF Truthy(res.url)
                         THEN [yielded |-> attempts.yielded \cup {api_url}, last |-> api_url]
                         ELSE attempts
          /\ rs' = [rs EXCEPT ![p] =
                      IF LoopReturns(res.url)
                      THEN [@ EXCEPT !.pc = "returned", !.download_url = res.url]
                      ELSE IF @.idx < Len(@.apis_to_try)
                           THEN [@ EXCEPT !.idx = @ + 1]
                           ELSE [@ EXCEPT !.pc = "returned"]]
  /\ UNCHANGED otherThanResolution

NextResolution ==
  \/ \E p \in Resolutions : resolve_start(p)
  \/ \E p \in Resolutions : resolve_response(p)

SpecResolution == Init /\ [][NextResolution]_vars

\* ============================================================== claims
mp3Key == <<req.isrc, "mp3">>

\* C1 (as stated): once (identity, mp3) has been acquired into the cache and
\* not evicted, every later stream_audio request for the identity, in every
\* serving mode, and every get_audio_stream call is served from the cache
\* without any upstream network call.
C1_EveryModeServedFromCache ==
  /\ (pc = "done" /\ req.kind = "stream" /\ h.hitExpected)
       => (~h.net /\ (resp.body = "cache" \/ h.gasFromCache))
  /\ (pc = "get_audio_stream_ret" /\ h.gasHit) => (h.gasFromCache /\ ~h.gasNet)

\* C1 (amended): what get_audio_stream acquired is stored under (identity,
\* mp3); while that entry is in the cache, a stream_audio request with
\* hifi = false answers 200 from the cache file without any upstream call, and
\* a get_audio_stream call returns the cached bytes without any upstream call.
C1_Mp3RequestServedFromCache ==
  /\ (pc = "get_audio_stream_ret" /\ h.wrote)
       => (mp3_data # None /\ cache[mp3Key] = mp3_data)
  /\ (pc = "done" /\ req.kind = "stream" /\ ~req.hifi /\ h.hitExpected)
       => (resp = [status |-> 200, body |-> "cache"] /\ ~h.net)
  /\ (pc = "get_audio_stream_ret" /\ h.gasHit)
       => (h.gasFromCache /\ ~h.gasNet /\ mp3_data = cache[mp3Key])

\* a get_audio_stream call that found the entry of an earlier acquisition
C1_Witness ==
  /\ pc = "get_audio_stream_ret"
  /\ h.gasHit /\ h.gasFromCache /\ ~h.wrote
  /\ mp3_data = "mp3"

\* C2: when every endpoint tried before position k of the try-list failed
\* (error, non-200, HTML, bad JSON, unknown shape) and the k-th returned a
\* URL, get_tidal_download_url returns that endpoint's URL, working_api is
\* that endpoint, and the next try-list starts with it (k = N included).
C2_EndpointFallback ==
  (pc = "tidal_url_ret" /\ Truthy(download_url) /\ h.soft_only)
    => /\ download_url.api = apis_to_try[idx]
       /\ working_api = apis_to_try[idx]
       /\ TryList(working_api)[1] = apis_to_try[idx]

\* the first N-1 endpoints failed and the last one returned a URL
C2_Witness ==
  /\ pc = "tidal_url_ret"
  /\ Truthy(download_url) /\ h.soft_only
  /\ idx = Len(TIDAL_APIS)
  /\ h.start_api # apis_to_try[idx]
  /\ working_api = apis_to_try[idx]

\* fetch_flac is over: it returned or raised
FetchOver == h.ff \in {"returned", "raised"}

\* C3: when the Tidal path of fetch_flac yielded no bytes and Deezer has the
\* ISRC and answers every step well, fetch_flac returns Deezer's bytes.
C3_ProviderFallback ==
  (FetchOver /\ ~h.tidalBytes /\ h.dzAvail)
    => (h.ff = "returned" /\ flac_data = "deezer_flac")

\* C4: fetch_flac never raises; when neither provider gave bytes it returns None.
C4_ExhaustionReturnsNone ==
  /\ h.ff # "raised"
  /\ (h.ff = "returned" /\ ~h.tidalBytes /\ flac_data # "deezer_flac")
       => flac_data \in {None, "empty"}

\* C5: the try-list is a permutation of TIDAL_APIS: working_api first when
\* it is set, the other endpoints after it in configured order; TIDAL_APIS
\* itself when working_api is unset.
C5_TryListPermutation ==
  pc = "get_tidal_download_url_from_api" =>
    /\ Len(apis_to_try) = Len(TIDAL_APIS)
    /\ Range(apis_to_try) = Range(TIDAL_APIS)
    /\ h.start_api = None => apis_to_try = TIDAL_APIS
    /\ h.start_api # None =>
         /\ apis_to_try[1] = h.start_api
         /\ \A i, j \in 2..Len(apis_to_try) :
              i < j => IndexOf(TIDAL_APIS, apis_to_try[i]) < IndexOf(TIDAL_APIS, apis_to_try[j])

\* a try-list reordered by an affinity that is not the first configured endpoint
C5_Witness ==
  /\ pc = "get_tidal_download_url_from_api"
  /\ h.start_api = "vogel"
  /\ apis_to_try # TIDAL_APIS

\* C6: a memoized token that was answered with 401 is cleared.
C6_RejectedTokenCleared == token_rejected => tidal_token = 0

\* C7: _get_access_token raises only when the direct fetch and the embed page
\* both gave no token; the embed page is fetched at most once per call and
\* only after the direct fetch gave no token; a token either yields is
\* returned and memoized.
C7_TokenFallback ==
  /\ sp.raised => (sp.primary \in PrimaryResponses \ {"ok"}
                   /\ sp.secondary \in SecondaryResponses \ {"match"})
  /\ sp.primaryTries <= 1 /\ sp.secondaryTries <= 1
  /\ sp.secondaryTries = 1 => sp.primary \in PrimaryResponses \ {"ok"}
  /\ (sp.primary = "ok" \/ sp.secondary = "match")
       => (~sp.raised /\ sp.token # 0 /\ access_token = sp.token)
  /\ (sp.pc \in {"sp_ret", "sp_done"} /\ ~sp.raised) => sp.token # 0

\* the embed page gave the token after the direct fetch failed
C7_Witness ==
  /\ sp.pc = "_api_request"
  /\ sp.primary = "non200" /\ sp.secondary = "match"
  /\ access_token = sp.token /\ sp.token # 0

\* C8: when get_tidal_token raised inside fetch_flac, fetch_flac does not
\* raise and a request went to Deezer before fetch_flac returned.
C8_CredentialFailureAbsorbed ==
  h.tokenFailed =>
    /\ h.ff # "raised"
    /\ (pc = "fetch_flac_ret" \/ FetchOver) => h.dzTried

\* the token fetch failed and Deezer's bytes were returned
C8_Witness ==
  /\ pc = "fetch_flac_ret"
  /\ h.tokenFailed /\ h.ff = "returned"
  /\ flac_data = "deezer_flac"

\* C9: in every serving mode a request whose source resolution found nothing
\* ends with status 404.
C9_UnresolvedIsNotFound ==
  (pc = "done" /\ h.unresolved) => resp.status = 404

\* C10: in the transcoded fallback of stream_audio, a request whose encoder
\* failed after the source was fetched ends with status 500.
C10_EncoderFailureIsFailed ==
  (pc = "done" /\ req.kind = "stream" /\ req.hifi /\ h.encFailed)
    => resp.status = 500

\* C11: when the transcode step of get_audio_stream failed, the cache is what
\* it was when get_audio_stream began (apart from what the sweep removed): no
\* entry was created, replaced or removed by the call.
C11_TranscodeFailureLeavesCache ==
  (h.inGas /\ h.encFailed) => cache = h.cache0

\* get_audio_stream returned nothing because the encoder failed on fetched bytes
C11_Witness ==
  /\ pc = "get_audio_stream_ret"
  /\ h.inGas /\ h.enc = "nonzero_exit"
  /\ flac_data = "tidal_flac" /\ mp3_data = None
  /\ cache[mp3Key] = None

\* C12: when cache_file failed after the transcode, the request is still
\* answered 200 with the bytes the transcode produced.
C12_CacheWriteFailureStillServes ==
  (pc = "done" /\ h.cacheWriteFailed) => resp = [status |-> 200, body |-> "mp3"]

\* the outcome kinds of the transcode contract
TranscodeKind(o) ==
  CASE o = "ffmpeg_missing" -> "TranscodeError"
    [] o = "nonzero_exit" -> "EncoderFailure"
    [] o \in {"ok", "ok_empty"} -> "bytes"
    [] OTHER -> "other"

\* C13: what transcode_to_mp3 returned tells its caller which kind of outcome
\* happened: no outcome of another kind returns the same value.
C13_FailureKindsDistinguishable ==
  (pc \in {"get_audio_stream_ret", "cache_file"}
     /\ h.enc \in {"ok", "ok_empty", "ffmpeg_missing", "nonzero_exit"}) =>
    \A o \in {"ok", "ok_empty", "ffmpeg_missing", "nonzero_exit"} :
      TranscodeKind(o) # TranscodeKind(h.enc) => TranscodeResult(o) # mp3_data

\* C14: a hifi request whose passthrough found no stream URL, or raised while
\* it was set up, went on to get_audio_stream; it is answered 200 with the
\* MP3 bytes when get_audio_stream returned bytes and with an error only when
\* get_audio_stream gave no bytes.
C14_PassthroughFallsBack ==
  (pc = "done" /\ req.kind = "stream" /\ h.proxy \in {"no_url", "raised"}) =>
    /\ h.inGas
    /\ h.gasOut = "bytes" => resp = [status |-> 200, body |-> "mp3"]
    /\ resp.status # 200 => (h.gasOut \in {"none", "raised"} /\ resp.status \in {404, 500})

\* the upstream request raised and the transcoded path served the request
C14_Witness ==
  /\ pc = "done" /\ req.hifi
  /\ h.proxy = "raised" /\ h.conn = None
  /\ h.gasOut = "bytes"
  /\ resp = [status |-> 200, body |-> "mp3"]

\* the passthrough answer is being relayed or has been relayed
Relayed == pc \in {"relay", "done"} /\ h.proxy = "relayed"

C16_StatusAndHeadersRelayed ==
  Relayed =>
    /\ resp.status = h.up.status
    /\ h.up.cr # "absent" => resp.headers.cr = h.up.cr
    /\ h.up.cl # "absent" => resp.headers.cl = h.up.cl
    /\ h.up.ct # "absent" => resp.headers.ct = h.up.ct

\* an upstream 404 with all three headers is relayed as it is
C16_Witness ==
  /\ Relayed
  /\ h.up = [status |-> 404, cr |-> "bytes 100-199/1000", cl |-> "100",
              ct |-> "audio/x-flac"]
  /\ resp.status = 404 /\ resp.headers.ct = "audio/x-flac"

\* C17: when the request is over, no upstream streaming connection that the
\* passthrough opened is still open.
C17_UpstreamConnectionClosed ==
  pc = "done" => h.conn # "open"

\* the tracks of the entries written to the archive
ZipTracks == {batch.zip_file[k].track : k \in 1..Len(batch.zip_file)}

\* C18: the batch is always answered with the archive; the archive holds
\* exactly one entry for each track whose acquisition returned a result and
\* none for a track that returned nothing or raised (a missing name or artist
\* included); every track was processed.
C18_ArchiveHasTheSuccessfulEntries ==
  /\ ZipTracks = batch.ok
  /\ Len(batch.zip_file) = Cardinality(batch.ok)
  /\ batch.ok \cap batch.failed = {}
  /\ batch.pc = "done" =>
       /\ batch.status = 200
       /\ batch.ok \cup batch.failed = 1..batch.n

\* an entry failed in the middle of the batch and the ones around it are in the archive
C18_Witness ==
  /\ batch.pc = "done" /\ batch.n = 3
  /\ batch.ok = {1, 3} /\ batch.failed = {2}
  /\ Len(batch.zip_file) = 2

\* C19: the filenames in the archive are pairwise distinct, and every
\* successful entry has its own filename in used_names.
C19_FilenamesDistinct ==
  /\ \A j, k \in 1..Len(batch.zip_file) :
       j # k => batch.zip_file[j].filename # batch.zip_file[k].filename
  /\ batch.used_names = {batch.zip_file[k].filename : k \in 1..Len(batch.zip_file)}
  /\ Cardinality(batch.used_names) = Cardinality(batch.ok)

\* "A", then "A?" (cleaned to "A"), then "A (1)": the third meets the suffixed second
C19_Witness ==
  /\ Len(batch.zip_file) = 3
  /\ batch.zip_file[1].filename = <<"X", " ", "-", " ", "A", ".mp3">>
  /\ batch.zip_file[2].filename = <<"X", " ", "-", " ", "A", " ", "(", "1", ")", ".mp3">>
  /\ batch.zip_file[3].filename =
       <<"X", " ", "-", " ", "A", " ", "(", "1", ")", " ", "(", "1", ")", ".mp3">>

\* C20: at most one acquisition of the batch is awaited at a time, it is that
\* of the current entry, and every earlier entry has finished.
C20_EntriesSequential ==
  /\ Cardinality(batch.inflight) <= 1
  /\ batch.inflight \subseteq {batch.i}
  /\ batch.pc = "acquiring" => batch.inflight = {batch.i}
  /\ batch.pc \in {"loop", "acquiring"} =>
       batch.ok \cup batch.failed = 1..(batch.i - 1)

\* the third acquisition is awaited after the first two have finished
C20_Witness ==
  /\ batch.pc = "acquiring" /\ batch.i = 3
  /\ batch.inflight = {3}
  /\ batch.ok \cup batch.failed = {1, 2}

\* C24: the body of a Failed (500) response of stream_audio and download_audio
\* does not depend on the internal fault: whichever exception reached the
\* handler, the caller sees the body it sees now.
C24_FailedBodyIndependentOfFault ==
  (pc = "done" /\ resp.status = 500)
    => \A e \in ExceptionDetails(req.kind) : ErrorBody(e) = resp.body

\* C25: a stale affinity costs at most one extra failed endpoint attempt.
\* When the loop of get_tidal_download_url stops at an endpoint that answered
\* a URL, every endpoint configured before it has failed in this resolution,
\* so a resolution with working_api unset would have had IndexOf(...) - 1
\* failed attempts; this one had idx - 1.  When no endpoint answers, both have
\* Len(TIDAL_APIS) failed attempts.
C25_StaleAffinityCostsOneAttempt ==
  pc = "tidal_url_ret" =>
    IF Truthy(download_url)
    THEN idx - 1 <= (IndexOf(TIDAL_APIS, apis_to_try[idx]) - 1) + 1
    ELSE idx <= Len(TIDAL_APIS) + 1

C25_Witness ==
  /\ pc = "tidal_url_ret"
  /\ Truthy(download_url)
  /\ h.start_api # None
  /\ h.start_api # apis_to_try[idx]
  /\ idx - 1 = IndexOf(TIDAL_APIS, apis_to_try[idx])
\* C26: get_tidal_download_url stops at the first endpoint that yields a URL:
\* it returns that endpoint's URL, and no endpoint after it in the try-list
\* receives a request in that resolution.
C26_StopsAtFirstUrl ==
  /\ pc = "get_tidal_download_url_from_api" => h.firstYield = 0
  /\ (pc = "tidal_url_ret" /\ h.firstYield # 0)
       => /\ Truthy(download_url)
          /\ download_url.api = apis_to_try[h.firstYield]
          /\ h.requests = h.firstYield

C26_Witness ==
  /\ pc = "tidal_url_ret"
  /\ h.firstYield = 2
  /\ h.requests = 2
  /\ download_url.api = apis_to_try[2]
\* C27: a hifi request with no search hint still performs source resolution,
\* with the identity as the catalog query, before any fallback to transcoded
\* delivery: when the handler turns to get_audio_stream, a request to the
\* provider has been made.
C27_HifiWithoutHintResolves ==
  (pc = "get_audio_stream" /\ req.kind = "stream" /\ req.hifi /\ ~req.q)
    => h.net

\* C28: in fetch_flac, Deezer is consulted only after Tidal has failed: no
\* request goes to Deezer in a resolution whose Tidal download succeeded.
C28_DeezerOnlyAfterTidalFailed ==
  h.tidalBytes => ~h.dzTried

C28_Witness ==
  /\ pc = "fetch_flac_ret"
  /\ h.tidalBytes
  /\ flac_data = "tidal_flac"
  /\ ~h.dzTried
\* C30: once get_token has succeeded, every later get_token call returns the
\* same memoized token and sends no network request, as long as the token has
\* not been cleared; for get_tidal_token and for _get_access_token.
C30_MemoizedTokenReused ==
  /\ (pc = "search_tidal_by_isrc" /\ h.tokHad # 0)
       => (h.tokRet = h.tokHad /\ ~h.tokNet /\ tidal_token = h.tokHad)
  /\ (sp.pc = "_api_request" /\ sp.had # 0)
       => /\ sp.token = sp.had
          /\ access_token = sp.had
          /\ sp.primaryTries = 0 /\ sp.secondaryTries = 0

C30_Witness ==
  /\ pc = "search_tidal_by_isrc"
  /\ h.tokHad # 0
  /\ h.tokRet = h.tokHad
  /\ ~h.net
\* the positions of the results whose ISRC is the requested identity
Matches(items, isrc) == {k \in 1..Len(items) : items[k].isrc = isrc}

\* C29: search_tidal_by_isrc returns the first result whose ISRC equals the
\* requested identity when there is one, otherwise the first result, and
\* None when the result list is empty or the search fails.
C29_SearchPrefersIsrcMatch ==
  search.pc = "returned" =>
    LET items == search.answer.items
        m == Matches(items, search.isrc)
    IN IF search.answer.kind # "ok" \/ items = <<>>
       THEN search.result = None
       ELSE IF m # {}
       THEN search.result = items[CHOOSE k \in m : \A j \in m : k <= j]
       ELSE search.result = items[1]

C29_Witness ==
  /\ search.pc = "returned"
  /\ search.answer.kind = "ok"
  /\ Len(search.answer.items) = 3
  /\ search.answer.items[1].isrc # search.isrc
  /\ search.answer.items[2].isrc = search.isrc
  /\ search.answer.items[3].isrc = search.isrc
  /\ search.result = search.answer.items[2]
\* a file holding the whole encoder output of one request
Complete(f) == f.exists /\ \E p \in Requests : f.data = Output(p)

\* C21: an interrupted cache write never leaves a file visible at the final
\* cache path: whatever is at the final path is fully written, and every
\* reader that finds the entry (is_cached then get_cached_file, or
\* FileResponse) reads a fully written file.
C21_CacheWriteAtomic ==
  /\ disk[FinalPath].exists => Len(disk[FinalPath].data) = WriteChunks
  /\ \A p \in Requests :
       task[p].served \in {"cache", "file"} => Len(task[p].got) = WriteChunks

C21_Witness ==
  \E p, q \in Requests :
    /\ task[p].served = "killed"
    /\ disk[TempPath(p)].exists
    /\ Len(disk[TempPath(p)].data) < WriteChunks
    /\ ~disk[FinalPath].exists
    /\ task[q].served = "file"
    /\ Len(task[q].got) = WriteChunks
\* C22: two requests for the same identity run get_audio_stream concurrently
\* and both miss the cache.  Under every interleaving each one is served its
\* whole transcode output, and afterwards the cache holds exactly one
\* complete entry for (identity, mp3): never a partial or mixed one, no
\* temporary file left beside it, and the entry is there unless the sweep
\* has removed it since.
C22_ConcurrentMissesServedWhole ==
  /\ \A p \in Requests :
       task[p].served = "bytes"
         => /\ task[p].got = Output(p)
            /\ ~disk[TempPath(p)].exists
            /\ ~task[p].evicted => Exists(disk)
  /\ Exists(disk) => Complete(disk[FinalPath])

C22_Witness ==
  \E p, q \in Requests :
    /\ p # q
    /\ task[p].missed /\ task[q].missed
    /\ task[p].served = "bytes" /\ task[q].served = "bytes"
    /\ ~task[p].evicted /\ ~task[q].evicted
    /\ disk[FinalPath] = [exists |-> TRUE, data |-> Output(q)]

\* C23: while one request is inside the transcode step of get_audio_stream
\* the event loop is not blocked, so another request can start and complete
\* before that transcode finishes (the witness is such a request).
C23_TranscodeDoesNotBlockLoop ==
  \A p \in Requests : task[p].pc = "transcoding" => loop = 0

C23_Witness ==
  \E p, q \in Requests :
    /\ task[p].pc = "transcoding"
    /\ p \in task[q].during
    /\ task[q].pc = "done"
    /\ task[q].served \in {"cache", "file"}
\* C33: a call to get_tidal_download_url that returns the absent value (no
\* endpoint yielded a non-empty URL, an endpoint answering a recognised record
\* with an empty URL field included) leaves working_api as it was when the
\* call began.
C33_AbsentLeavesAffinity ==
  (pc = "tidal_url_ret" /\ ~Truthy(download_url)) => working_api = h.start_api
\* C35: get_audio_stream writes to the cache only the non-empty output of a
\* transcode that exited with status zero, and only under the key (requested
\* identity, mp3): an entry it wrote never holds raw source bytes, empty
\* bytes or the output of a failed transcode, and no other key is touched.
C35_OnlyGoodTranscodeCached ==
  h.wrote =>
    /\ h.enc = "ok"
    /\ cache[mp3Key] = "mp3"
    /\ \A k \in CacheKeys \ {mp3Key} : cache[k] = h.cache0[k]

C35_Witness ==
  /\ pc = "get_audio_stream_ret"
  /\ h.wrote
  /\ h.enc = "ok"
  /\ h.cache0[mp3Key] = None
  /\ cache[mp3Key] = "mp3"
\* C32: a request served by the passthrough proxy path of stream_audio, its
\* HEAD variant included, leaves the cache unchanged: it creates, replaces
\* and removes no cache entry (the cache is what it was when the request
\* began, less what the sweep removed) and invokes no transcode.
C32_PassthroughLeavesCache ==
  (pc \in {"relay", "done"} /\ h.proxy \in {"head", "relayed"})
    => /\ cache = h.cache0
       /\ h.enc = None
       /\ ~h.inGas /\ ~h.wrote

C32_Witness ==
  /\ pc = "done"
  /\ h.proxy = "relayed"
  /\ resp.body = "proxy"
  /\ cache[<<req.isrc, "mp3">>] # None
  /\ cache = h.cache0
\* C36: in get_audio_stream, when the existence check reports the entry as
\* cached but the read that follows returns nothing (the entry was evicted
\* between the two), the request goes on to a fresh acquisition and
\* transcode: it is at fetch_flac, has returned nothing and has failed nothing.
C36_EmptyReadFallsThrough ==
  h.readEmpty =>
    /\ pc = "fetch_flac"
    /\ mp3_data = None
    /\ h.gasOut = None
    /\ ~h.gasFromCache
    /\ resp = NoResp

C36_Witness ==
  /\ h.readEmpty
  /\ pc = "fetch_flac"
  /\ h.inGas
  /\ cache[<<req.isrc, "mp3">>] = None
\* C37: a get_token call that fails leaves no usable token memoized (the
\* stored token stays unset or empty), so the next get_token call performs a
\* fresh fetch instead of returning a stale or empty token; for
\* _get_access_token and for get_tidal_token.
C37_FailedFetchMemoizesNothing ==
  /\ sp.raised => access_token = 0
  /\ (sp.after_failure /\ sp.pc \notin {"idle", "_get_access_token"})
       => /\ ~sp.memo /\ sp.had = 0
          /\ sp.pc # "token_primary" => sp.primaryTries = 1
  /\ h.tokenFailed => tidal_token = 0

C37_Witness ==
  /\ sp.after_failure
  /\ sp.pc = "_api_request"
  /\ sp.primaryTries = 1
  /\ sp.token # 0
  /\ access_token = sp.token
\* C31: transcode_to_mp3 terminates for every input, empty or corrupted
\* included: once the encoder is started the call always returns (feeding
\* the input and collecting the output never deadlock on the pipes), and it
\* returns either None (non-zero exit status) or everything the encoder
\* wrote to its output.
C31_TranscodeTerminates ==
  /\ [](tc.pc = "returned" =>
          \/ tc.result = NoneResult /\ (tc.enc = "none" \/ tc.returncode # 0)
          \/ tc.returncode = 0 /\ tc.result = Bytes(tc.produced))
  /\ (tc.pc = "communicate") ~> (tc.pc = "returned")

C31_Witness ==
  /\ tc.pc = "returned" /\ tc.jam
  /\ tc.input0 = MaxInput /\ tc.result = Bytes(MaxOutput)

\* C34 (as stated): under every interleaving of concurrent calls of
\* get_tidal_download_url, working_api is unset or a configured endpoint
\* that answered a URL in some earlier attempt, and once every call has
\* returned it is the endpoint of the last attempt that answered a URL.
C34_AffinityLastWriteWins ==
  /\ working_api # None =>
       working_api \in Range(TIDAL_APIS) /\ working_api \in attempts.yielded
  /\ (\A p \in Resolutions : rs[p].pc = "returned") => working_api = attempts.last

====












